---- MODULE Spec2Model ----
(***************************************************************************)
(* PIXI.Framebuffer (packages/core/src/framebuffer/Framebuffer.js).        *)
(*                                                                         *)
(* Numbers.  A JavaScript number is modelled in half units: the integer n  *)
(* stands for n/2, so 200 is 100, 3 is 1.5 and -1 is -0.5; NaN is a        *)
(* separate value.  Every size and resolution of the model is in half      *)
(* units.  -0 and 0 are one value (they are === in JavaScript).            *)
(*                                                                         *)
(* Textures.  A texture is an object with identity: the variable textures  *)
(* is the heap, a texture is its index in it, 0 is null/undefined.  The    *)
(* first textures of the heap belong to the caller, the others are the     *)
(* ones the framebuffer constructs itself.                                 *)
(***************************************************************************)
EXTENDS Integers, Sequences, FiniteSets, TLC

\* ---- bounds -------------------------------------------------------------
MaxDirtyFormat == 2   \* no format-changing call once dirtyFormat is here
MaxDirtySize   == 1   \* no size-changing resize once dirtySize is here
MaxIndex       == 1   \* largest index given to addColorTexture
MaxCreated     == 1   \* textures the framebuffer constructs itself

\* ---- JavaScript numbers ---------------------------------------------------
NaN       == -1000001
Undefined == -1000002

\* the number i + h/2
Num(i, h) == 2 * i + h

\* `width || 100` at the constructor: the default of a falsy width
DefaultSize == 100

IsFalsy(x) == x = Undefined \/ x = NaN \/ x = 0

\* a || b
OrElse(a, b) == IF IsFalsy(a) THEN b ELSE a

\* Math.ceil that forgets to round
CeilTruncBug(x) == IF x = NaN \/ x = Undefined THEN NaN ELSE 2 * (x \div 2)

\* Math.ceil(x); Math.ceil(undefined) is NaN
Ceil(x) == IF x = NaN \/ x = Undefined THEN NaN ELSE 2 * ((x + 1) \div 2)

\* a === b on numbers
StrictEq(a, b) == a # NaN /\ b # NaN /\ a = b

\* a / b, for the b the model uses (b divides 2a)
Div(a, b) == IF a = NaN \/ b = NaN THEN NaN ELSE (2 * a) \div b

\* ---- textures (BaseTexture, not part of this file) -----------------------
NoTexture == 0

\* new BaseTexture(resource, { resolution, width, height, ... })
NewBaseTexture(w, h, r) ==
    [resolution |-> r, width |-> w, height |-> h, destroyed |-> FALSE]

\* BaseTexture.setSize(w, h)
SetSize(t, w, h) == [t EXCEPT !.width = w, !.height = h]

\* BaseTexture.destroy()
Destroy(t) == [t EXCEPT !.destroyed = TRUE]

\* the textures the caller owns before it touches the framebuffer
CallerTextures ==
    << [resolution |-> Num(1, 0), width |-> Num(100, 0), height |-> Num(100, 0),
        destroyed |-> FALSE],
       [resolution |-> Num(2, 0), width |-> Num(8, 0), height |-> Num(8, 0),
        destroyed |-> FALSE] >>

\* ---- inputs --------------------------------------------------------------
CtorInputs   == {Undefined, 0, Num(-1, 1), Num(1, 1), Num(2, 0)}
WidthInputs  == {NaN, Num(-1, 1), Num(1, 1), Num(2, 0)}
HeightInputs == {Num(0, 1), Num(2, 0)}
IndexInputs  == {Undefined} \cup (0 .. MaxIndex)

VARIABLES
    width, height,        \* this.width, this.height
    stencil, depth,       \* this.stencil, this.depth
    dirtyId, dirtyFormat, dirtySize,
    depthTexture,         \* this.depthTexture: a texture or NoTexture
    colorTextures,        \* this.colorTextures: element i+1 is colorTextures[i],
                          \* NoTexture is a hole
    glFramebuffers,       \* this.glFramebuffers: the keys set
    textures,             \* the heap of textures
    lastOp,               \* the last call: its name and arguments
    calls,                \* the calls the last call made on its collaborators
    result                \* what the last call returned: "this", "undefined",
                          \* or "TypeError" when it threw

fb   == <<width, height, stencil, depth, dirtyId, dirtyFormat, dirtySize,
          depthTexture, colorTextures, glFramebuffers>>
vars == <<width, height, stencil, depth, dirtyId, dirtyFormat, dirtySize,
          depthTexture, colorTextures, glFramebuffers, textures, lastOp, calls,
          result>>

Op(name, args) == [op |-> name, args |-> args]

\* ---- constructor ---------------------------------------------------------
Constructor(w, h) ==
    /\ width = Ceil(OrElse(w, Num(DefaultSize, 0)))
    /\ height = Ceil(OrElse(h, Num(DefaultSize, 0)))
    /\ stencil = FALSE
    /\ depth = FALSE
    /\ dirtyId = 0
    /\ dirtyFormat = 0
    /\ dirtySize = 0
    /\ depthTexture = NoTexture
    /\ colorTextures = <<>>
    /\ glFramebuffers = {}

Init ==
    \E w \in CtorInputs, h \in CtorInputs :
        /\ Constructor(w, h)
        /\ textures = CallerTextures
        /\ lastOp = Op("constructor", <<w, h>>)
        /\ calls = <<>>
        /\ result = "this"

\* ---- helpers -------------------------------------------------------------
Max(a, b) == IF a > b THEN a ELSE b

\* arr.push(t) in place of arr[index] = t
ArrayPush(arr, index, t) == Append(arr, t)

\* arr[index] = t on a JavaScript array: a write past the end leaves holes
ArraySet(arr, index, t) ==
    [i \in 1 .. Max(Len(arr), index + 1) |->
        IF i = index + 1 THEN t
        ELSE IF i <= Len(arr) THEN arr[i] ELSE NoTexture]

\* `texture || new BaseTexture(...)`: the texture used, and the heap after
CanAttach(t) == t # NoTexture \/ Len(textures) < Len(CallerTextures) + MaxCreated
Attached(t) == IF t # NoTexture THEN t ELSE Len(textures) + 1

\* the options of lines 58-64 and 80-88: resolution: 1, width: this.width,
\* height: this.height
NewCall(t) == <<"new", t, width, height, Num(1, 0)>>
CallsOfAttach(t) == IF t # NoTexture THEN <<>> ELSE <<NewCall(Attached(t))>>
HeapAfterAttach(t) ==
    IF t # NoTexture THEN textures
    ELSE Append(textures, NewBaseTexture(NewCall(0)[3], NewCall(0)[4], NewCall(0)[5]))

\* ---- addColorTexture -----------------------------------------------------
addColorTexture(index, texture) ==
    LET i == IF index = Undefined THEN 0 ELSE index IN
    /\ dirtyFormat < MaxDirtyFormat
    /\ CanAttach(texture)
    /\ colorTextures' = ArraySet(colorTextures, i, Attached(texture))
    /\ textures' = HeapAfterAttach(texture)
    /\ dirtyId' = dirtyId + 1
    /\ dirtyFormat' = dirtyFormat + 1
    /\ lastOp' = Op("addColorTexture", <<index, texture>>)
    /\ calls' = CallsOfAttach(texture)
    /\ result' = "this"
    /\ UNCHANGED <<width, height, stencil, depth, dirtySize, depthTexture,
                   glFramebuffers>>

\* addDepthTexture that destroys the depth texture it replaces
addDepthTextureDestroysOld(texture) ==
    /\ dirtyFormat < MaxDirtyFormat
    /\ CanAttach(texture)
    /\ depthTexture' = Attached(texture)
    /\ textures' =
           [t \in DOMAIN HeapAfterAttach(texture) |->
               IF t = depthTexture THEN Destroy(textures[t])
               ELSE HeapAfterAttach(texture)[t]]
    /\ dirtyId' = dirtyId + 1
    /\ dirtyFormat' = dirtyFormat + 1
    /\ lastOp' = Op("addDepthTexture", <<texture>>)
    /\ calls' = IF depthTexture # NoTexture
                THEN << <<"destroy", depthTexture>> >> \o CallsOfAttach(texture)
                ELSE CallsOfAttach(texture)
    /\ result' = "this"
    /\ UNCHANGED <<width, height, stencil, depth, dirtySize, colorTextures,
                   glFramebuffers>>

\* addDepthTexture without this.dirtyFormat++
addDepthTextureNoFormat(texture) ==
    /\ dirtyFormat < MaxDirtyFormat
    /\ CanAttach(texture)
    /\ depthTexture' = Attached(texture)
    /\ textures' = HeapAfterAttach(texture)
    /\ dirtyId' = dirtyId + 1
    /\ lastOp' = Op("addDepthTexture", <<texture>>)
    /\ calls' = CallsOfAttach(texture)
    /\ result' = "this"
    /\ UNCHANGED <<width, height, stencil, depth, dirtyFormat, dirtySize,
                   colorTextures, glFramebuffers>>

\* ---- addDepthTexture -----------------------------------------------------
addDepthTexture(texture) ==
    /\ dirtyFormat < MaxDirtyFormat
    /\ CanAttach(texture)
    /\ depthTexture' = Attached(texture)
    /\ textures' = HeapAfterAttach(texture)
    /\ dirtyId' = dirtyId + 1
    /\ dirtyFormat' = dirtyFormat + 1
    /\ lastOp' = Op("addDepthTexture", <<texture>>)
    /\ calls' = CallsOfAttach(texture)
    /\ result' = "this"
    /\ UNCHANGED <<width, height, stencil, depth, dirtySize, colorTextures,
                   glFramebuffers>>

\* ---- enableDepth / enableStencil -----------------------------------------
\* enableDepth that counts only when the flag changes
enableDepthOnce ==
    /\ dirtyFormat < MaxDirtyFormat
    /\ depth' = TRUE
    /\ dirtyId' = IF depth THEN dirtyId ELSE dirtyId + 1
    /\ dirtyFormat' = IF depth THEN dirtyFormat ELSE dirtyFormat + 1
    /\ lastOp' = Op("enableDepth", <<>>)
    /\ calls' = <<>>
    /\ result' = "this"
    /\ UNCHANGED <<width, height, stencil, dirtySize, depthTexture,
                   colorTextures, glFramebuffers, textures>>

enableDepth ==
    /\ dirtyFormat < MaxDirtyFormat
    /\ depth' = TRUE
    /\ dirtyId' = dirtyId + 1
    /\ dirtyFormat' = dirtyFormat + 1
    /\ lastOp' = Op("enableDepth", <<>>)
    /\ calls' = <<>>
    /\ result' = "this"
    /\ UNCHANGED <<width, height, stencil, dirtySize, depthTexture,
                   colorTextures, glFramebuffers, textures>>

\* enableStencil that sets this.depth (the body of enableDepth copied)
enableStencilSetsDepth ==
    /\ dirtyFormat < MaxDirtyFormat
    /\ depth' = TRUE
    /\ dirtyId' = dirtyId + 1
    /\ dirtyFormat' = dirtyFormat + 1
    /\ lastOp' = Op("enableStencil", <<>>)
    /\ calls' = <<>>
    /\ result' = "this"
    /\ UNCHANGED <<width, height, stencil, dirtySize, depthTexture,
                   colorTextures, glFramebuffers, textures>>

\* enableStencil without this.dirtyId++
enableStencilNoId ==
    /\ dirtyFormat < MaxDirtyFormat
    /\ stencil' = TRUE
    /\ dirtyFormat' = dirtyFormat + 1
    /\ lastOp' = Op("enableStencil", <<>>)
    /\ calls' = <<>>
    /\ result' = "this"
    /\ UNCHANGED <<width, height, depth, dirtyId, dirtySize, depthTexture,
                   colorTextures, glFramebuffers, textures>>

enableStencil ==
    /\ dirtyFormat < MaxDirtyFormat
    /\ stencil' = TRUE
    /\ dirtyId' = dirtyId + 1
    /\ dirtyFormat' = dirtyFormat + 1
    /\ lastOp' = Op("enableStencil", <<>>)
    /\ calls' = <<>>
    /\ result' = "this"
    /\ UNCHANGED <<width, height, depth, dirtySize, depthTexture,
                   colorTextures, glFramebuffers, textures>>

\* ---- resize ---------------------------------------------------------------
\* line 133 with the height compared to this.width
SameSizeTypo(w2, h2) == StrictEq(w2, width) /\ StrictEq(h2, width)

\* width === this.width && height === this.height
SameSize(w2, h2) == StrictEq(w2, width) /\ StrictEq(h2, height)

\* the index (from 1) of the first hole of arr, 0 when it has none
FirstHole(arr) ==
    IF \E i \in 1 .. Len(arr) : arr[i] = NoTexture
    THEN CHOOSE i \in 1 .. Len(arr) :
             /\ arr[i] = NoTexture
             /\ \A j \in 1 .. (i - 1) : arr[j] # NoTexture
    ELSE 0

\* The textures resize calls setSize on, in the order of the calls: the loop of
\* lines 141-148 runs up the array and reads texture.resolution of each entry,
\* which is a TypeError on a hole (the entry is undefined); the depth texture
\* follows the loop.
ResizeTargets(arr, dt) ==
    IF FirstHole(arr) # 0 THEN SubSeq(arr, 1, FirstHole(arr) - 1)
    ELSE IF dt # NoTexture THEN Append(arr, dt)
    ELSE arr

\* texture.setSize(width, height): the resolution forgotten
SetSizeCallNoResolution(t, w, h) == <<"setSize", t, w, h>>

\* texture.setSize(width / resolution, height / resolution)
SetSizeCall(t, w, h) ==
    <<"setSize", t, Div(w, textures[t].resolution), Div(h, textures[t].resolution)>>

resize(w, h) ==
    LET w2 == Ceil(w)
        h2 == Ceil(h)
        targets == ResizeTargets(colorTextures, depthTexture)
    IN
    /\ lastOp' = Op("resize", <<w, h>>)
    /\ IF SameSize(w2, h2)
       THEN /\ calls' = <<>>
            /\ result' = "undefined"
            /\ UNCHANGED <<fb, textures>>
       ELSE /\ dirtySize < MaxDirtySize
            /\ width' = w2
            /\ height' = h2
            /\ dirtyId' = dirtyId + 1
            /\ dirtySize' = dirtySize + 1
            /\ calls' = [k \in 1 .. Len(targets) |-> SetSizeCall(targets[k], w2, h2)]
            /\ textures' =
                   [t \in DOMAIN textures |->
                       IF \E k \in 1 .. Len(targets) : targets[k] = t
                       THEN SetSize(textures[t], SetSizeCall(t, w2, h2)[3],
                                    SetSizeCall(t, w2, h2)[4])
                       ELSE textures[t]]
            /\ result' = IF FirstHole(colorTextures) # 0 THEN "TypeError"
                         ELSE "undefined"
            /\ UNCHANGED <<stencil, depth, dirtyFormat, depthTexture,
                           colorTextures, glFramebuffers>>

\* dispose that also drops the attachments
disposeAndClear ==
    /\ lastOp' = Op("dispose", <<>>)
    /\ calls' = << <<"run", "this", FALSE>> >>
    /\ result' = "undefined"
    /\ depthTexture' = NoTexture
    /\ colorTextures' = <<>>
    /\ UNCHANGED <<width, height, stencil, depth, dirtyId, dirtyFormat,
                   dirtySize, glFramebuffers, textures>>

\* dispose that also resets the counters
disposeResetsCounters ==
    /\ lastOp' = Op("dispose", <<>>)
    /\ calls' = << <<"run", "this", FALSE>> >>
    /\ result' = "undefined"
    /\ dirtyId' = 0
    /\ dirtyFormat' = 0
    /\ dirtySize' = 0
    /\ UNCHANGED <<width, height, stencil, depth, depthTexture, colorTextures,
                   glFramebuffers, textures>>

\* dispose that also empties this.glFramebuffers
disposeClearsBindings ==
    /\ lastOp' = Op("dispose", <<>>)
    /\ calls' = << <<"run", "this", FALSE>> >>
    /\ result' = "undefined"
    /\ glFramebuffers' = {}
    /\ UNCHANGED <<width, height, stencil, depth, dirtyId, dirtyFormat,
                   dirtySize, depthTexture, colorTextures, textures>>

\* ---- dispose --------------------------------------------------------------
dispose ==
    /\ lastOp' = Op("dispose", <<>>)
    /\ calls' = << <<"run", "this", FALSE>> >>
    /\ result' = "undefined"
    /\ UNCHANGED <<fb, textures>>

\* destroyDepthTexture that keeps the reference to the destroyed texture
destroyDepthTextureKeepsRef ==
    /\ lastOp' = Op("destroyDepthTexture", <<>>)
    /\ result' = "undefined"
    /\ IF depthTexture # NoTexture
       THEN /\ dirtyFormat < MaxDirtyFormat
            /\ calls' = << <<"destroy", depthTexture>> >>
            /\ textures' = [textures EXCEPT ![depthTexture] = Destroy(@)]
            /\ dirtyId' = dirtyId + 1
            /\ dirtyFormat' = dirtyFormat + 1
            /\ UNCHANGED <<width, height, stencil, depth, dirtySize,
                           depthTexture, colorTextures, glFramebuffers>>
       ELSE /\ calls' = <<>>
            /\ UNCHANGED <<fb, textures>>

\* destroyDepthTexture without the two counter increments
destroyDepthTextureSilent ==
    /\ lastOp' = Op("destroyDepthTexture", <<>>)
    /\ result' = "undefined"
    /\ IF depthTexture # NoTexture
       THEN /\ calls' = << <<"destroy", depthTexture>> >>
            /\ textures' = [textures EXCEPT ![depthTexture] = Destroy(@)]
            /\ depthTexture' = NoTexture
            /\ UNCHANGED <<width, height, stencil, depth, dirtyId, dirtyFormat,
                           dirtySize, colorTextures, glFramebuffers>>
       ELSE /\ calls' = <<>>
            /\ UNCHANGED <<fb, textures>>

\* ---- destroyDepthTexture --------------------------------------------------
destroyDepthTexture ==
    /\ lastOp' = Op("destroyDepthTexture", <<>>)
    /\ result' = "undefined"
    /\ IF depthTexture # NoTexture
       THEN /\ dirtyFormat < MaxDirtyFormat
            /\ calls' = << <<"destroy", depthTexture>> >>
            /\ textures' = [textures EXCEPT ![depthTexture] = Destroy(@)]
            /\ depthTexture' = NoTexture
            /\ dirtyId' = dirtyId + 1
            /\ dirtyFormat' = dirtyFormat + 1
            /\ UNCHANGED <<width, height, stencil, depth, dirtySize,
                           colorTextures, glFramebuffers>>
       ELSE /\ calls' = <<>>
            /\ UNCHANGED <<fb, textures>>

Next ==
    \/ \E index \in IndexInputs, texture \in 0 .. Len(textures) :
           addColorTexture(index, texture)
    \/ \E texture \in 0 .. Len(textures) : addDepthTexture(texture)
    \/ enableDepth
    \/ enableStencil
    \/ \E w \in WidthInputs, h \in HeightInputs : resize(w, h)
    \/ dispose
    \/ destroyDepthTexture

Spec == Init /\ [][Next]_vars

\* new Framebuffer(): the construction SpecFail and SpecBackend start from
InitNoArgs == Init /\ lastOp.args = <<Undefined, Undefined>>

\* ---- resize with a setSize call that throws ---------------------------------
\* a texture after a setSize(w, h) call that threw: the exception came before
\* or after the size was written
FailedSetSize(t, w, h, written) == IF written THEN SetSize(t, w, h) ELSE t

\* resize that writes the size and the counters after the loops
resizeFailsBeforeStore(w, h, i, written) ==
    LET w2 == Ceil(w)
        h2 == Ceil(h)
        targets == ResizeTargets(colorTextures, depthTexture)
    IN
    /\ ~SameSize(w2, h2)
    /\ dirtySize < MaxDirtySize
    /\ i \in 1 .. Len(targets)
    /\ lastOp' = Op("resize", <<w, h>>)
    /\ calls' = [k \in 1 .. i |-> SetSizeCall(targets[k], w2, h2)]
    /\ textures' =
           [t \in DOMAIN textures |->
               IF \E k \in 1 .. (i - 1) : targets[k] = t
               THEN SetSize(textures[t], SetSizeCall(t, w2, h2)[3],
                            SetSizeCall(t, w2, h2)[4])
               ELSE IF targets[i] = t
               THEN FailedSetSize(textures[t], SetSizeCall(t, w2, h2)[3],
                                  SetSizeCall(t, w2, h2)[4], written)
               ELSE textures[t]]
    /\ result' = "Error"
    /\ UNCHANGED fb

\* resize(w, h) changing the size, with the i-th setSize call throwing: the
\* exception leaves resize at that call (lines 147 and 154 have no try)
resizeFails(w, h, i, written) ==
    LET w2 == Ceil(w)
        h2 == Ceil(h)
        targets == ResizeTargets(colorTextures, depthTexture)
    IN
    /\ ~SameSize(w2, h2)
    /\ dirtySize < MaxDirtySize
    /\ i \in 1 .. Len(targets)
    /\ lastOp' = Op("resize", <<w, h>>)
    /\ width' = w2
    /\ height' = h2
    /\ dirtyId' = dirtyId + 1
    /\ dirtySize' = dirtySize + 1
    /\ calls' = [k \in 1 .. i |-> SetSizeCall(targets[k], w2, h2)]
    /\ textures' =
           [t \in DOMAIN textures |->
               IF \E k \in 1 .. (i - 1) : targets[k] = t
               THEN SetSize(textures[t], SetSizeCall(t, w2, h2)[3],
                            SetSizeCall(t, w2, h2)[4])
               ELSE IF targets[i] = t
               THEN FailedSetSize(textures[t], SetSizeCall(t, w2, h2)[3],
                                  SetSizeCall(t, w2, h2)[4], written)
               ELSE textures[t]]
    /\ result' = "Error"
    /\ UNCHANGED <<stencil, depth, dirtyFormat, depthTexture, colorTextures,
                   glFramebuffers>>

\* the heights of the resize calls that fail
FailHeightInputs == {Num(0, 1)}

NextFail ==
    \/ Next
    \/ \E w \in WidthInputs, h \in FailHeightInputs, i \in 1 .. (MaxIndex + 2),
          written \in BOOLEAN : resizeFails(w, h, i, written)

SpecFail == InitNoArgs /\ [][NextFail]_vars

\* ---- the backend (a renderer's framebuffer system, not part of this file) --
\* the rendering contexts, by their id
Contexts == {1}

\* the backend stores its native framebuffer under its context id
backendBind(ctx) ==
    /\ ctx \notin glFramebuffers
    /\ glFramebuffers' = glFramebuffers \cup {ctx}
    /\ lastOp' = Op("backendBind", <<ctx>>)
    /\ calls' = <<>>
    /\ result' = "undefined"
    /\ UNCHANGED <<width, height, stencil, depth, dirtyId, dirtyFormat,
                   dirtySize, depthTexture, colorTextures, textures>>

\* the backend deletes its native framebuffer
backendRelease(ctx) ==
    /\ ctx \in glFramebuffers
    /\ glFramebuffers' = glFramebuffers \ {ctx}
    /\ lastOp' = Op("backendRelease", <<ctx>>)
    /\ calls' = <<>>
    /\ result' = "undefined"
    /\ UNCHANGED <<width, height, stencil, depth, dirtyId, dirtyFormat,
                   dirtySize, depthTexture, colorTextures, textures>>

NextBackend ==
    \/ Next
    \/ \E ctx \in Contexts : backendBind(ctx)
    \/ \E ctx \in Contexts : backendRelease(ctx)

SpecBackend == InitNoArgs /\ [][NextBackend]_vars

\* ---- properties ------------------------------------------------------------
\* n is the integer ceil(x), said without Math.ceil: the least integer that
\* is not below x (NaN for a NaN or undefined x)
IsCeilOf(n, x) ==
    IF x = NaN \/ x = Undefined THEN n = NaN
    ELSE n # NaN /\ n % 2 = 0 /\ n >= x /\ n - 2 < x

IsPositiveInteger(n) == n # NaN /\ n # Undefined /\ n % 2 = 0 /\ n > 0

\* the textures the framebuffer holds
ColorSet(arr) == {arr[i] : i \in 1 .. Len(arr)} \ {NoTexture}
AttachedSet(arr, dt) == ColorSet(arr) \cup ({dt} \ {NoTexture})
HasHole(arr) == \E i \in 1 .. Len(arr) : arr[i] = NoTexture

\* the number of slots (color indices and the depth slot) that hold t
Slots(arr, dt, t) ==
    Cardinality({i \in 1 .. Len(arr) : arr[i] = t}) + (IF dt = t THEN 1 ELSE 0)

\* the setSize calls of a call log that are made on t
SetSizeCallsOn(log, t) ==
    {k \in 1 .. Len(log) : log[k][1] = "setSize" /\ log[k][2] = t}

\* this step is the call of the operation called name
Called(name) == lastOp'.op = name

\* this step is resize(w, h) with (ceil(w), ceil(h)) equal to the current size
SameSizeResize ==
    /\ Called("resize")
    /\ width # NaN /\ IsCeilOf(width, lastOp'.args[1])
    /\ height # NaN /\ IsCeilOf(height, lastOp'.args[2])

\* this step is resize(w, h) with (ceil(w), ceil(h)) not the current size
SizeChangingResize == Called("resize") /\ ~SameSizeResize

\* C1: a size-changing resize on a framebuffer whose colorTextures has a hole
\* completes without error, and every present color texture and the depth
\* texture get their setSize call.
C1_ResizeSkipsHoles ==
    [][(SizeChangingResize /\ HasHole(colorTextures)) =>
          /\ result' # "TypeError"
          /\ \A t \in AttachedSet(colorTextures, depthTexture) :
                 SetSizeCallsOn(calls', t) # {}]_vars

\* C2: in every reachable state width and height are positive integers.
C2_PositiveDimensions == IsPositiveInteger(width) /\ IsPositiveInteger(height)

\* C3: in every reachable state every present color texture and the depth
\* texture has the size (width / resolution, height / resolution).
C3_TexturesMatchSize ==
    \A t \in AttachedSet(colorTextures, depthTexture) :
        /\ textures[t].width = Div(width, textures[t].resolution)
        /\ textures[t].height = Div(height, textures[t].resolution)

\* C4: resize(w, h) with (ceil(w), ceil(h)) equal to the current size changes
\* no field of the framebuffer (size, counters, flags, attachments), calls
\* setSize on no texture and changes no texture.
C4_SameSizeResizeIsNoOp ==
    [][SameSizeResize =>
          /\ UNCHANGED <<fb, textures>>
          /\ calls' = <<>>
          /\ result' = "undefined"]_vars

\* a same-size resize with a fractional width that follows a size-changing
\* one, on a framebuffer with a color texture at index 0: no setSize call
C4_Witness ==
    /\ lastOp.op = "resize"
    /\ lastOp.args[1] # NaN /\ lastOp.args[1] % 2 = 1
    /\ dirtySize = 1
    /\ Len(colorTextures) > 0 /\ colorTextures[1] # NoTexture
    /\ calls = <<>>

\* C5: a size-changing resize(w2, h2) stores width = ceil(w2) and height =
\* ceil(h2), adds exactly 1 to dirtyId and to dirtySize, and leaves
\* dirtyFormat, the depth and stencil flags and the attachments unchanged.
C5_SizeChangingResize ==
    [][SizeChangingResize =>
          /\ IsCeilOf(width', lastOp'.args[1])
          /\ IsCeilOf(height', lastOp'.args[2])
          /\ dirtyId' = dirtyId + 1
          /\ dirtySize' = dirtySize + 1
          /\ UNCHANGED <<dirtyFormat, depth, stencil, colorTextures,
                         depthTexture>>]_vars

\* a size-changing resize to a fractional width has acted on a framebuffer
\* with attachments and flags set
C5_Witness ==
    /\ lastOp.op = "resize"
    /\ lastOp.args[1] # NaN /\ lastOp.args[1] % 2 = 1
    /\ dirtySize = 1 /\ dirtyFormat = 2
    /\ calls # <<>>
    /\ depth

\* the setSize call that is due to t at the size (w, h): the size divided by
\* the resolution of t, said without Div
ExpectedSetSize(t, w, h) ==
    <<"setSize", t,
      IF w = NaN THEN NaN ELSE (2 * w) \div textures[t].resolution,
      IF h = NaN THEN NaN ELSE (2 * h) \div textures[t].resolution>>

\* C6 as stated: on a size-changing resize with a dense colorTextures every
\* attached color texture and the depth texture get exactly one setSize call,
\* with (ceil(w2) / resolution, ceil(h2) / resolution), and no other texture
\* gets one.
C6_ExactlyOneSetSize ==
    [][(SizeChangingResize /\ ~HasHole(colorTextures)) =>
          /\ \A t \in AttachedSet(colorTextures, depthTexture) :
                 /\ Cardinality(SetSizeCallsOn(calls', t)) = 1
                 /\ \A k \in SetSizeCallsOn(calls', t) :
                        calls'[k] = ExpectedSetSize(t, width', height')
          /\ \A k \in 1 .. Len(calls') :
                 calls'[k][2] \in AttachedSet(colorTextures, depthTexture)]_vars

\* C6 amended: every attached texture gets one setSize call for each slot
\* (color index or the depth slot) that holds it, each with (ceil(w2) /
\* resolution, ceil(h2) / resolution); no other call is made.
C6_OneSetSizePerSlot ==
    [][(SizeChangingResize /\ ~HasHole(colorTextures)) =>
          /\ \A t \in AttachedSet(colorTextures, depthTexture) :
                 /\ Cardinality(SetSizeCallsOn(calls', t)) =
                        Slots(colorTextures, depthTexture, t)
                 /\ \A k \in SetSizeCallsOn(calls', t) :
                        calls'[k] = ExpectedSetSize(t, width', height')
          /\ \A k \in 1 .. Len(calls') :
                 /\ calls'[k][1] = "setSize"
                 /\ calls'[k][2] \in AttachedSet(colorTextures, depthTexture)
          /\ \A t \in DOMAIN textures :
                 t \notin AttachedSet(colorTextures, depthTexture) =>
                     textures'[t] = textures[t]]_vars

\* a size-changing resize has resized a color texture of resolution 2 and a
\* depth texture that is another texture
C6_Witness ==
    /\ lastOp.op = "resize"
    /\ result = "undefined"
    /\ Len(calls) = 2
    /\ calls[1][2] # calls[2][2]
    /\ textures[calls[1][2]].resolution = Num(2, 0)
    /\ depthTexture = calls[2][2]

\* the texture an attach call stores: the one given or, when none is given,
\* a texture that did not exist before the call
StoredByAttach(given, stored) ==
    IF given # NoTexture
    THEN /\ stored = given
         /\ calls' = <<>>
         /\ textures' = textures
    ELSE /\ stored \notin DOMAIN textures
         /\ stored \in DOMAIN textures'
         /\ calls' = << <<"new", stored, width, height, Num(1, 0)>> >>
         /\ \A t \in DOMAIN textures : textures'[t] = textures[t]

\* C7: addColorTexture(index, texture) and addDepthTexture(texture) each add
\* exactly 1 to dirtyId and to dirtyFormat, leave dirtySize, width, height and
\* the flags unchanged, store the texture given (or, when none is given, a
\* new texture constructed with the current width and height and resolution
\* 1) at colorTextures[index] (index 0 when omitted) or depthTexture, leave
\* every other attachment alone and return the framebuffer.
C7_Attach ==
    [][/\ Called("addColorTexture") =>
              LET i == IF lastOp'.args[1] = Undefined THEN 0
                       ELSE lastOp'.args[1]
              IN /\ Len(colorTextures') >= i + 1
                 /\ StoredByAttach(lastOp'.args[2], colorTextures'[i + 1])
                 /\ \A j \in 1 .. Len(colorTextures) :
                        j # i + 1 => colorTextures'[j] = colorTextures[j]
                 /\ \A j \in 1 .. Len(colorTextures') :
                        (j # i + 1 /\ j > Len(colorTextures)) =>
                            colorTextures'[j] = NoTexture
                 /\ depthTexture' = depthTexture
       /\ Called("addDepthTexture") =>
              /\ StoredByAttach(lastOp'.args[1], depthTexture')
              /\ colorTextures' = colorTextures
       /\ (Called("addColorTexture") \/ Called("addDepthTexture")) =>
              /\ dirtyId' = dirtyId + 1
              /\ dirtyFormat' = dirtyFormat + 1
              /\ UNCHANGED <<dirtySize, width, height, depth, stencil>>
              /\ result' = "this"]_vars

\* addColorTexture(0) has replaced the texture at index 0 of a framebuffer
\* that holds a second color texture and was resized before
C7_Witness ==
    /\ lastOp = Op("addColorTexture", <<0, NoTexture>>)
    /\ Len(colorTextures) = 2 /\ colorTextures[2] # NoTexture
    /\ dirtySize = 1

\* C8: every enableDepth() and enableStencil() call, also one made when the
\* flag is already true, adds exactly 1 to dirtyId and to dirtyFormat and
\* leaves dirtySize unchanged.
C8_EnableAlwaysCounts ==
    [][(Called("enableDepth") \/ Called("enableStencil")) =>
          /\ dirtyId' = dirtyId + 1
          /\ dirtyFormat' = dirtyFormat + 1
          /\ dirtySize' = dirtySize
          /\ result' = "this"]_vars

\* two format changes, the last one enableDepth, on a framebuffer that never
\* got a texture or the stencil flag: enableDepth was called twice
C8_Witness ==
    /\ lastOp.op = "enableDepth"
    /\ dirtyFormat = 2
    /\ ~stencil
    /\ colorTextures = <<>> /\ depthTexture = NoTexture
    /\ textures = CallerTextures

\* C9: destroyDepthTexture() without a depth texture changes nothing and
\* raises no error; with one it calls destroy() on that texture exactly once,
\* sets depthTexture to null, adds exactly 1 to dirtyId and to dirtyFormat
\* and leaves dirtySize, the size, the flags and colorTextures unchanged.
C9_DestroyDepthTexture ==
    [][Called("destroyDepthTexture") =>
          /\ result' = "undefined"
          /\ IF depthTexture = NoTexture
             THEN /\ UNCHANGED <<fb, textures>>
                  /\ calls' = <<>>
             ELSE /\ calls' = << <<"destroy", depthTexture>> >>
                  /\ depthTexture' = NoTexture
                  /\ dirtyId' = dirtyId + 1
                  /\ dirtyFormat' = dirtyFormat + 1
                  /\ UNCHANGED <<dirtySize, width, height, depth, stencil,
                                 colorTextures>>]_vars

\* destroyDepthTexture() has destroyed a depth texture the caller supplied
C9_Witness ==
    /\ lastOp.op = "destroyDepthTexture"
    /\ Len(calls) = 1
    /\ calls[1][2] \in DOMAIN CallerTextures
    /\ textures[calls[1][2]].destroyed
    /\ depthTexture = NoTexture

\* C10: every dispose() call runs the dispose runner exactly once, with
\* (this, false), and changes neither the framebuffer (size, flags, counters,
\* colorTextures, depthTexture) nor any texture.
C10_DisposeNotifies ==
    [][Called("dispose") =>
          /\ calls' = << <<"run", "this", FALSE>> >>
          /\ UNCHANGED <<fb, textures>>
          /\ result' = "undefined"]_vars

\* dispose() has run on a framebuffer with attachments, a flag and counters
C10_Witness ==
    /\ lastOp.op = "dispose"
    /\ Len(calls) = 1
    /\ depthTexture # NoTexture /\ colorTextures # <<>>
    /\ dirtySize = 1

\* C11: no step decreases or resets dirtyId, dirtyFormat or dirtySize.
C11_CountersMonotonic ==
    [][/\ dirtyId' >= dirtyId
       /\ dirtyFormat' >= dirtyFormat
       /\ dirtySize' >= dirtySize]_vars

\* all three counters have grown and a call that counts nothing (dispose)
\* has followed
C11_Witness ==
    /\ dirtyId = 3 /\ dirtyFormat = 2 /\ dirtySize = 1
    /\ lastOp.op = "dispose"

\* C12: a step increases dirtyId exactly when it increases dirtyFormat or
\* dirtySize.
C12_StructureTracksFormatOrSize ==
    [][(dirtyId' > dirtyId) <=>
           (dirtyFormat' > dirtyFormat \/ dirtySize' > dirtySize)]_vars

\* a format change (enableStencil) has followed a size change
C12_Witness ==
    /\ lastOp.op = "enableStencil"
    /\ dirtySize = 1
    /\ dirtyId = dirtyFormat + 1

\* C18: in every reachable state dirtyId = dirtyFormat + dirtySize.
C18_IdIsFormatPlusSize == dirtyId = dirtyFormat + dirtySize

\* format changes and a size change have both been counted, the last one by
\* addDepthTexture
C18_Witness ==
    /\ lastOp.op = "addDepthTexture"
    /\ dirtyFormat = 2 /\ dirtySize = 1

\* `value or 100`: 100 for an omitted, zero or NaN value
ValueOr100(x) == IF x = Undefined \/ x = 0 \/ x = NaN THEN Num(100, 0) ELSE x

\* C13: right after construction width and height are ceil(value or 100) and
\* positive integers, both flags are false, the three counters are 0,
\* colorTextures is empty and depthTexture is null.
C13_Construction ==
    lastOp.op = "constructor" =>
        /\ IsCeilOf(width, ValueOr100(lastOp.args[1]))
        /\ IsCeilOf(height, ValueOr100(lastOp.args[2]))
        /\ IsPositiveInteger(width) /\ IsPositiveInteger(height)
        /\ ~depth /\ ~stencil
        /\ dirtyId = 0 /\ dirtyFormat = 0 /\ dirtySize = 0
        /\ colorTextures = <<>>
        /\ depthTexture = NoTexture

\* C14: between two states of a run with equal dirtyId the size, the flags,
\* colorTextures and depthTexture are the same; with equal dirtySize the size
\* is the same; with equal dirtyFormat the flags and the attachments are the
\* same.  Stated step by step: no counter ever decreases, and a step that
\* leaves a counter alone leaves alone what the counter stands for; the
\* statement about two states any number of steps apart follows by induction
\* (equal counters at both ends mean equal counters at every step between).
C14_PollingSound ==
    [][/\ dirtyId' >= dirtyId
       /\ dirtyFormat' >= dirtyFormat
       /\ dirtySize' >= dirtySize
       /\ dirtyId' = dirtyId =>
              UNCHANGED <<width, height, depth, stencil, colorTextures,
                          depthTexture>>
       /\ dirtySize' = dirtySize => UNCHANGED <<width, height>>
       /\ dirtyFormat' = dirtyFormat =>
              UNCHANGED <<depth, stencil, colorTextures, depthTexture>>]_vars

\* a destroyDepthTexture() that found no depth texture has left dirtyId at 3
\* on a framebuffer with a color texture
C14_Witness ==
    /\ lastOp.op = "destroyDepthTexture"
    /\ calls = <<>>
    /\ dirtyId = 3
    /\ colorTextures # <<>>

\* C15: addColorTexture and addDepthTexture call neither destroy nor setSize
\* and change no texture that existed before the call, so a replaced texture
\* is left as it was; a destroy call is made by destroyDepthTexture only, on
\* the depth texture of that moment, and no texture gets destroyed otherwise.
C15_NoDestroyOnReplace ==
    [][/\ \A k \in 1 .. Len(calls') :
              calls'[k][1] = "destroy" =>
                  /\ Called("destroyDepthTexture")
                  /\ depthTexture # NoTexture
                  /\ calls'[k][2] = depthTexture
       /\ \A t \in DOMAIN textures :
              (textures'[t].destroyed /\ ~textures[t].destroyed) =>
                  (Called("destroyDepthTexture") /\ t = depthTexture)
       /\ (Called("addColorTexture") \/ Called("addDepthTexture")) =>
              /\ \A k \in 1 .. Len(calls') : calls'[k][1] = "new"
              /\ \A t \in DOMAIN textures : textures'[t] = textures[t]]_vars

\* addColorTexture(index, texture) has replaced the texture the framebuffer
\* had constructed for that index: that texture is attached nowhere and is
\* not destroyed
C15_Witness ==
    /\ lastOp.op = "addColorTexture"
    /\ lastOp.args[2] # NoTexture
    /\ Len(textures) = Len(CallerTextures) + 1
    /\ Len(textures) \notin AttachedSet(colorTextures, depthTexture)
    /\ ~textures[Len(textures)].destroyed

\* C17: enableDepth() sets depth and leaves stencil alone, enableStencil()
\* sets stencil and leaves depth alone, no other call changes either flag,
\* and a flag that is true stays true.
C17_FlagsIndependentAndSticky ==
    [][/\ Called("enableDepth") => (depth' /\ stencil' = stencil)
       /\ Called("enableStencil") => (stencil' /\ depth' = depth)
       /\ ~(Called("enableDepth") \/ Called("enableStencil")) =>
              UNCHANGED <<depth, stencil>>
       /\ depth => depth'
       /\ stencil => stencil']_vars

\* enableStencil() has acted on a framebuffer that holds a depth texture and
\* never asked for depth
C17_Witness ==
    /\ lastOp.op = "enableStencil"
    /\ stencil /\ ~depth
    /\ depthTexture # NoTexture

\* the methods of Framebuffer
Methods ==
    {"addColorTexture", "addDepthTexture", "enableDepth", "enableStencil",
     "resize", "dispose", "destroyDepthTexture"}

\* C16: no method of Framebuffer changes glFramebuffers: it changes in the
\* steps of the backend only.
C16_BindingsUntouched ==
    [][(lastOp'.op \in Methods) => glFramebuffers' = glFramebuffers]_vars

\* dispose() has run on a framebuffer a backend has bound, and the binding
\* is still there
C16_Witness ==
    /\ lastOp.op = "dispose"
    /\ glFramebuffers # {}
    /\ dirtyId > 0

\* this step is a size-changing resize one of whose setSize calls threw; the
\* call that threw is the last of calls'
FailedResize == Called("resize") /\ result' = "Error"

\* the texture of the k-th slot in the order of resize: the color textures
\* by index, then the depth texture
SlotTexture(k) ==
    IF k <= Len(colorTextures) THEN colorTextures[k] ELSE depthTexture

\* what C19 says of the framebuffer and of the slots below the failing one:
\* size and counters are written, the calls run in slot order, and the
\* textures of the slots below the failing one have the new size
FailedResizeCommon ==
    /\ IsCeilOf(width', lastOp'.args[1])
    /\ IsCeilOf(height', lastOp'.args[2])
    /\ dirtyId' = dirtyId + 1
    /\ dirtySize' = dirtySize + 1
    /\ UNCHANGED <<dirtyFormat, depth, stencil, colorTextures, depthTexture>>
    /\ \A k \in 1 .. Len(calls') :
           calls'[k] = ExpectedSetSize(SlotTexture(k), width', height')
    /\ \A k \in 1 .. (Len(calls') - 1) :
           /\ textures'[SlotTexture(k)].width =
                  ExpectedSetSize(SlotTexture(k), width', height')[3]
           /\ textures'[SlotTexture(k)].height =
                  ExpectedSetSize(SlotTexture(k), width', height')[4]

\* this step is resize called again with the arguments of the resize that
\* has just failed
RetryOfFailedResize ==
    lastOp.op = "resize" /\ result = "Error" /\ lastOp' = lastOp

\* C19 as stated: when the setSize call of slot i throws, the framebuffer has
\* the new size and counters, the textures of the slots below i have the new
\* size, the textures of the slots above i (the depth texture last) are as
\* they were, and resize called again with the same arguments changes
\* nothing and calls nothing.
C19_PartialResize ==
    [][/\ FailedResize =>
              /\ FailedResizeCommon
              /\ \A k \in (Len(calls') + 1) .. (Len(colorTextures) + 1) :
                     SlotTexture(k) # NoTexture =>
                         textures'[SlotTexture(k)] = textures[SlotTexture(k)]
       /\ RetryOfFailedResize =>
              /\ UNCHANGED <<fb, textures>>
              /\ calls' = <<>>
              /\ result' = "undefined"]_vars

\* C19 amended: the textures that are as they were are those that hold no
\* slot at or below i, and the retry is a no-op when neither argument is NaN.
C19_PartialResizeByTexture ==
    [][/\ FailedResize =>
              /\ FailedResizeCommon
              /\ \A t \in DOMAIN textures :
                     (\A k \in 1 .. Len(calls') : SlotTexture(k) # t) =>
                         textures'[t] = textures[t]
       /\ (RetryOfFailedResize /\ width # NaN /\ height # NaN) =>
              /\ UNCHANGED <<fb, textures>>
              /\ calls' = <<>>
              /\ result' = "undefined"]_vars

\* the setSize call on the texture at index 0 has thrown: the framebuffer has
\* the new size and the other texture, at index 1, still has its old one
C19_Witness ==
    /\ lastOp.op = "resize"
    /\ result = "Error"
    /\ Len(calls) = 1
    /\ Len(colorTextures) = 2
    /\ colorTextures[1] # NoTexture /\ colorTextures[2] # NoTexture
    /\ colorTextures[1] # colorTextures[2]
    /\ dirtySize = 1
    /\ textures[colorTextures[2]].width #
           Div(width, textures[colorTextures[2]].resolution)
====
